---- MODULE Spec2Model ----
(***************************************************************************)
(* ModelAgnosticMetaLearning.step() of maml_rl/metalearner.py: the outer   *)
(* (TRPO) update of MAML.  One call of step() is modelled, cut at its      *)
(* suspension points: the two run_until_complete(gather(...)) barriers and *)
(* the awaits of the per-task train/valid futures inside surrogate_loss.   *)
(*                                                                         *)
(* Numbers are floats modelled as exact rationals <<n, d>> (d > 0, lowest  *)
(* terms) extended with the IEEE specials +inf = <<1,0>>, -inf = <<-1,0>>  *)
(* and NaN = <<0,0>>.  The flat parameter vector is carried as one         *)
(* coordinate: every vector operation of step() is element-wise or a dot   *)
(* product.  The policy network and the episode tensors are external; a    *)
(* validation batch is summarised by its mean advantage, the gradient of   *)
(* its surrogate loss and the curvature (Fisher information) of its KL     *)
(* term around the reference distribution old_pi.                          *)
(***************************************************************************)
EXTENDS Integers, Sequences, FiniteSets, TLC

\* ---------------------------------------------------------------- bounds
NumTasks == 2
MaxLs == 2
SqrtDigits == 10

\* ------------------------------------------------------------ float model
\* Arguments are bound to their values before an operator's body is evaluated
\* (call by value, CHOOSE r \in {F(x) : x \in {a}} : TRUE), so that nested
\* arithmetic is evaluated once.
RECURSIVE Gcd(_, _)
Gcd(a, b) ==
    IF b = 0 THEN a
    ELSE CHOOSE r \in {Gcd(x, y) : x \in {b}, y \in {a % b}} : TRUE

Abs(n) == IF n < 0 THEN -n ELSE n

Sign(n) == IF n > 0 THEN 1 ELSE IF n < 0 THEN -1 ELSE 0

RatOf(n, d) ==
    IF d = 0 THEN <<Sign(n), 0>>
    ELSE IF n = 0 THEN <<0, 1>>
    ELSE LET g == Gcd(Abs(n), Abs(d))
             s == Sign(d)
         IN  <<(s * n) \div g, (s * d) \div g>>

Rat(n, d) == CHOOSE r \in {RatOf(x, y) : x \in {n}, y \in {d}} : TRUE

Zero == <<0, 1>>
One == <<1, 1>>
Half == <<1, 2>>
NaN == <<0, 0>>
PosInf == <<1, 0>>
NegInf == <<-1, 0>>

IsNaN(a) == a = NaN
IsFinite(a) == a[2] # 0

FNeg(a) == <<-a[1], a[2]>>

AddOf(a, b) ==
    IF a[2] = 0 /\ b[2] = 0 THEN (IF a = b THEN a ELSE NaN)
    ELSE IF a[2] = 0 THEN a
    ELSE IF b[2] = 0 THEN b
    ELSE LET g == Gcd(a[2], b[2])
         IN  Rat(a[1] * (b[2] \div g) + b[1] * (a[2] \div g),
                 (a[2] \div g) * b[2])

FAdd(a, b) == CHOOSE r \in {AddOf(x, y) : x \in {a}, y \in {b}} : TRUE

FSub(a, b) == FAdd(a, FNeg(b))

\* The factors are reduced crosswise first, so that the products stay small.
MulOf(a, b) ==
    IF a[2] = 0 \/ b[2] = 0 THEN <<Sign(a[1]) * Sign(b[1]), 0>>
    ELSE IF a[1] = 0 \/ b[1] = 0 THEN <<0, 1>>
    ELSE LET g1 == Gcd(Abs(a[1]), b[2])
             g2 == Gcd(Abs(b[1]), a[2])
         IN  Rat((a[1] \div g1) * (b[1] \div g2),
                 (a[2] \div g2) * (b[2] \div g1))

FMul(a, b) == CHOOSE r \in {MulOf(x, y) : x \in {a}, y \in {b}} : TRUE

RecipOf(a) == Rat(a[2], a[1])

FRecip(a) == CHOOSE r \in {RecipOf(x) : x \in {a}} : TRUE

FDiv(a, b) == FMul(a, FRecip(b))

\* a < b as the float comparison: any comparison with NaN is false.
LtOf(a, b) ==
    IF IsNaN(a) \/ IsNaN(b) \/ a = b THEN FALSE
    ELSE IF a = NegInf \/ b = PosInf THEN TRUE
    ELSE IF a = PosInf \/ b = NegInf THEN FALSE
    ELSE LET g == Gcd(a[2], b[2])
         IN  a[1] * (b[2] \div g) < b[1] * (a[2] \div g)

FLt(a, b) == CHOOSE r \in {LtOf(x, y) : x \in {a}, y \in {b}} : TRUE

RECURSIVE ISqrtBetween(_, _, _)
ISqrtBetween(x, lo, hi) ==
    IF hi - lo <= 1 THEN lo
    ELSE CHOOSE r \in {IF mid * mid <= x THEN ISqrtBetween(x, mid, hi)
                                         ELSE ISqrtBetween(x, lo, mid) :
                        mid \in {(lo + hi) \div 2}} : TRUE

ISqrt(x) ==
    CHOOSE r \in {ISqrtBetween(x, 0, hi) :
                    hi \in {IF x < 46340 THEN x + 1 ELSE 46341}} : TRUE

\* torch.sqrt: NaN on a negative argument, otherwise the root rounded down to
\* a multiple of 1 / (d * SqrtDigits).
SqrtOf(a) ==
    IF IsNaN(a) \/ a[1] < 0 THEN NaN
    ELSE IF a[2] = 0 THEN PosInf
    ELSE Rat(ISqrt(a[1] * a[2] * SqrtDigits * SqrtDigits), a[2] * SqrtDigits)

FSqrt(a) == CHOOSE r \in {SqrtOf(x) : x \in {a}} : TRUE

\* ------------------------------------------------- parameters of the run
Tasks == 1..NumTasks
None == <<>>
Some(x) == <<x>>

NumStepsSet == {0, 1}
ThetaSet == {Rat(3, 2), Rat(-2, 1)}
DampingSet == {Zero, Rat(1, 100)}
fast_lr == Half
max_kl == Rat(1, 4)
ls_backtrack_ratio == Half

PendingTrain == [st |-> "pending", grad |-> Zero]
TrainEpisodes == {[st |-> "ok", grad |-> One]}
FailedTrain == [st |-> "failed", grad |-> Zero]

PendingValid == [st |-> "pending", adv |-> Zero, grad |-> Zero, fisher |-> Zero]
ValidEpisodes ==
    {[st |-> "ok", adv |-> One, grad |-> Zero, fisher |-> Zero],
     [st |-> "ok", adv |-> One, grad |-> One, fisher |-> One]}
FailedValid == [st |-> "failed", adv |-> Zero, grad |-> Zero, fisher |-> Zero]

VARIABLES
    num_steps,      \* self.num_steps
    policy,         \* parameters_to_vector(self.policy.parameters())
    train,          \* train_episodes[t]: the task's train future
    valid,          \* valid_episodes[t]: the task's validation future
    phase,          \* idle | initial | probe | returned | faulted
    pc,             \* position of each task's surrogate_loss coroutine
    params,         \* the params of each task's running surrogate_loss call
    parameters,     \* params returned by the initial pass (None or Some)
    old_pis,        \* reference point of old_pi of each task (None or Some)
    losses,
    kls,
    aggregated,     \* old_loss, grads, kl and the HVP oracle have been computed
    old_loss,
    step,
    old_params,
    step_size,
    iter,           \* iterations of the line-search loop started
    ls,             \* none | Probing | Accepted | Reverted
    ls_max_steps,
    cg_damping,
    pre,            \* history: the policy parameters when step() was called
    writes,         \* history: calls of vector_to_parameters on the policy
    adaptCalls,     \* history: calls of adapt() per task
    trainAwaits,    \* history: awaits of the train future per task
    log             \* history: one record per decided probe

vars == <<num_steps, policy, train, valid, phase, pc, params, parameters, old_pis,
          losses, kls, aggregated, old_loss, step, old_params, step_size,
          iter, ls, ls_max_steps, cg_damping, pre, writes, adaptCalls,
          trainAwaits, log>>

\* ------------------------------------------------------------ operators
RECURSIVE SumTo(_, _)
SumTo(f, n) == IF n = 0 THEN Zero ELSE FAdd(SumTo(f, n - 1), f[n])

\* sum(xs) / num_tasks
Mean(f) == FDiv(SumTo(f, NumTasks), Rat(NumTasks, 1))

\* policy.update_params(inner_loss, params, step_size): one gradient step.
update_params(grad, base, lr) == FSub(base, FMul(lr, grad))

\* adapt(): num_steps gradient steps from the stored parameters; None when
\* num_steps = 0.
RECURSIVE AdaptFrom(_, _, _, _)
AdaptFrom(given, n, episodes, theta) ==
    IF n = 0 THEN given
    ELSE LET base == IF given = None THEN theta ELSE given[1]
         IN  AdaptFrom(Some(update_params(episodes.grad, base, fast_lr)),
                       n - 1, episodes, theta)

adapt(episodes, theta) == AdaptFrom(None, num_steps, episodes, theta)

\* Variant: surrogate_loss adapts on every call.
NeedsAdaptAlways(given) == TRUE

\* surrogate_loss line 87: adapt only when no params were handed in.
NeedsAdapt(given) == given = None

StartPc(given) == IF NeedsAdapt(given) THEN "train" ELSE "valid"

\* self.policy(observations, params=params): the given params, or the stored
\* parameters when params is None.
EffectiveParams(given, theta) == IF given = None THEN theta ELSE given[1]

\* loss = -weighted_mean(ratio * advantages), ratio = 1 at the reference.
Loss(episodes, p, ref) ==
    FAdd(FNeg(episodes.adv), FMul(episodes.grad, FSub(p, ref)))

\* kl = weighted_mean(kl_divergence(pi, old_pi)), 0 at the reference.
KL(episodes, p, ref) ==
    FMul(FMul(Half, episodes.fisher), FMul(FSub(p, ref), FSub(p, ref)))

\* hessian_vector_product(kl, damping)(vector)
hessian_vector_product(fisher, damping, vector) ==
    FAdd(FMul(fisher, vector), FMul(damping, vector))

\* conjugate_gradient(hvp, b): the solution x of hvp(x) = b.
conjugate_gradient(fisher, damping, b) ==
    FDiv(b, hessian_vector_product(fisher, damping, One))

\* torch.sqrt(shs / max_kl) (line 151)
LagrangeMultiplier(shs, maxkl) == FSqrt(FDiv(shs, maxkl))

\* Variant: the probes do not hand the adapted params on.
ProbeParamsNone(ps, t) == None

\* The params handed to a probe's surrogate_loss (lines 164-169): those the
\* initial pass returned for the task.
ProbeParams(ps, t) == ps[t]

\* old_params - step_size * step (line 161)

Tentative(oldp, ss, st) == FSub(oldp, FMul(ss, st))

\* Variant: the for-loop has no else branch.
RestoreSkipped(oldp, cur) == cur

\* vector_to_parameters(old_params, ...) of the else branch (line 179)
Restore(oldp, cur) == oldp

\* Variant: improve <= 0 accepts.
AcceptNonStrict(improve, kl, maxkl) ==
    ~FLt(Zero, improve) /\ ~IsNaN(improve) /\ FLt(kl, maxkl)

\* (improve.item() < 0.0) and (kl.item() < max_kl) (line 175)
Accept(improve, kl, maxkl) == FLt(improve, Zero) /\ FLt(kl, maxkl)

\* step_size *= ls_backtrack_ratio (line 177)
Backtrack(ss) == FMul(ss, ls_backtrack_ratio)

\* Variant: one iteration too many.
LoopContinuesOffByOne(i) == i <= ls_max_steps

\* for _ in range(ls_max_steps) (line 160)
LoopContinues(i) == i < ls_max_steps

\* Variant: gather(return_exceptions=True), failed tasks dropped.
GatherDropsFailed == \A t \in Tasks : pc[t] \in {"done", "raised"}

\* Variant: the wait ends with the first completed task.
GatherFirstCompleted == \E t \in Tasks : pc[t] = "done"

\* asyncio.gather + run_until_complete: every coroutine has returned.
GatherDone == \A t \in Tasks : pc[t] = "done"

\* --------------------------------------------------------------- actions
Init ==
    /\ num_steps \in NumStepsSet
    /\ policy \in ThetaSet
    /\ train = [t \in Tasks |-> PendingTrain]
    /\ valid = [t \in Tasks |-> PendingValid]
    /\ phase = "idle"
    /\ pc = [t \in Tasks |-> "idle"]
    /\ params = [t \in Tasks |-> None]
    /\ parameters = [t \in Tasks |-> None]
    /\ old_pis = [t \in Tasks |-> None]
    /\ losses = [t \in Tasks |-> Zero]
    /\ kls = [t \in Tasks |-> Zero]
    /\ aggregated = FALSE
    /\ old_loss = Zero
    /\ step = Zero
    /\ old_params = Zero
    /\ step_size = One
    /\ iter = 0
    /\ ls = "none"
    /\ ls_max_steps = 0
    /\ cg_damping = Zero
    /\ pre = policy
    /\ writes = 0
    /\ adaptCalls = [t \in Tasks |-> 0]
    /\ trainAwaits = [t \in Tasks |-> 0]
    /\ log = <<>>

\* The sampler's workers resolve the futures.
ResolveTrain(t) ==
    /\ train[t].st = "pending"
    /\ \E e \in TrainEpisodes : train' = [train EXCEPT ![t] = e]
    /\ UNCHANGED <<num_steps, policy, valid, phase, pc, params, parameters,
                   old_pis, losses, kls, aggregated, old_loss, step, old_params,
                   step_size, iter, ls, ls_max_steps, cg_damping, pre, writes,
                   adaptCalls, trainAwaits, log>>

ResolveValid(t) ==
    /\ valid[t].st = "pending"
    /\ \E e \in ValidEpisodes : valid' = [valid EXCEPT ![t] = e]
    /\ UNCHANGED <<num_steps, policy, train, phase, pc, params, parameters,
                   old_pis, losses, kls, aggregated, old_loss, step, old_params,
                   step_size, iter, ls, ls_max_steps, cg_damping, pre, writes,
                   adaptCalls, trainAwaits, log>>

FailTrain(t) ==
    /\ train[t].st = "pending"
    /\ train' = [train EXCEPT ![t] = FailedTrain]
    /\ UNCHANGED <<num_steps, policy, valid, phase, pc, params, parameters,
                   old_pis, losses, kls, aggregated, old_loss, step, old_params,
                   step_size, iter, ls, ls_max_steps, cg_damping, pre, writes,
                   adaptCalls, trainAwaits, log>>

FailValid(t) ==
    /\ valid[t].st = "pending"
    /\ valid' = [valid EXCEPT ![t] = FailedValid]
    /\ UNCHANGED <<num_steps, policy, train, phase, pc, params, parameters,
                   old_pis, losses, kls, aggregated, old_loss, step, old_params,
                   step_size, iter, ls, ls_max_steps, cg_damping, pre, writes,
                   adaptCalls, trainAwaits, log>>

\* step(), lines 124-133: the initial pass is issued with params=None and
\* old_pi=None for every task.
Call(lsmax, damping) ==
    /\ phase = "idle"
    /\ phase' = "initial"
    /\ ls_max_steps' = lsmax
    /\ cg_damping' = damping
    /\ pre' = policy
    /\ params' = [t \in Tasks |-> None]
    /\ old_pis' = [t \in Tasks |-> None]
    /\ pc' = [t \in Tasks |-> StartPc(None)]
    /\ UNCHANGED <<num_steps, policy, train, valid, parameters, losses, kls, aggregated,
                   old_loss, step, old_params, step_size, iter, ls, writes,
                   adaptCalls, trainAwaits, log>>

\* surrogate_loss, lines 87-88: await the train future and adapt.
AwaitTrain(t) ==
    /\ phase \in {"initial", "probe"}
    /\ pc[t] = "train"
    /\ train[t].st # "pending"
    /\ trainAwaits' = [trainAwaits EXCEPT ![t] = @ + 1]
    /\ IF train[t].st = "failed"
       THEN /\ pc' = [pc EXCEPT ![t] = "raised"]
            /\ UNCHANGED <<params, adaptCalls>>
       ELSE /\ pc' = [pc EXCEPT ![t] = "valid"]
            /\ params' = [params EXCEPT ![t] = adapt(train[t], policy)]
            /\ adaptCalls' = [adaptCalls EXCEPT ![t] = @ + 1]
    /\ UNCHANGED <<num_steps, policy, train, valid, phase, parameters, old_pis, losses,
                   kls, aggregated, old_loss, step, old_params, step_size,
                   iter, ls, ls_max_steps, cg_damping, pre, writes, log>>

\* surrogate_loss, lines 90-114: await the validation future and evaluate.
AwaitValid(t) ==
    /\ phase \in {"initial", "probe"}
    /\ pc[t] = "valid"
    /\ valid[t].st # "pending"
    /\ IF valid[t].st = "failed"
       THEN /\ pc' = [pc EXCEPT ![t] = "raised"]
            /\ UNCHANGED <<old_pis, losses, kls>>
       ELSE LET p == EffectiveParams(params[t], policy)
                ref == IF old_pis[t] = None THEN p ELSE old_pis[t][1]
            IN  /\ pc' = [pc EXCEPT ![t] = "done"]
                /\ old_pis' = [old_pis EXCEPT ![t] = Some(ref)]
                /\ losses' = [losses EXCEPT ![t] = Loss(valid[t], p, ref)]
                /\ kls' = [kls EXCEPT ![t] = KL(valid[t], p, ref)]
    /\ UNCHANGED <<num_steps, policy, train, valid, phase, params, parameters,
                   aggregated, old_loss, step, old_params, step_size, iter,
                   ls, ls_max_steps, cg_damping, pre, writes, adaptCalls,
                   trainAwaits, log>>

\* surrogate_loss, lines 92-112: the policy forward pass, the distribution or
\* the mask broadcast raises.
EvalFault(t) ==
    /\ phase \in {"initial", "probe"}
    /\ pc[t] = "valid"
    /\ valid[t].st = "ok"
    /\ pc' = [pc EXCEPT ![t] = "raised"]
    /\ UNCHANGED <<num_steps, policy, train, valid, phase, params, parameters,
                   old_pis, losses, kls, aggregated, old_loss, step, old_params,
                   step_size, iter, ls, ls_max_steps, cg_damping, pre, writes,
                   adaptCalls, trainAwaits, log>>

\* run_until_complete(gather(...)) re-raises the first exception of a task;
\* step() has no handler, so the exception leaves step().
GatherRaise ==
    /\ phase \in {"initial", "probe"}
    /\ \E t \in Tasks : pc[t] = "raised"
    /\ phase' = "faulted"
    /\ UNCHANGED <<num_steps, policy, train, valid, pc, params, parameters, old_pis,
                   losses, kls, aggregated, old_loss, step, old_params,
                   step_size, iter, ls, ls_max_steps, cg_damping, pre, writes,
                   adaptCalls, trainAwaits, log>>

\* Variant: a probe does not write its tentative parameters.
EnterLoopNoTentative(i, ss, oldp, st, ps) ==
    IF LoopContinues(i)
    THEN /\ iter' = i + 1
         /\ ls' = "Probing"
         /\ phase' = "probe"
         /\ params' = [t \in Tasks |-> ProbeParams(ps, t)]
         /\ pc' = [t \in Tasks |-> StartPc(ProbeParams(ps, t))]
         /\ UNCHANGED <<policy, writes>>
    ELSE /\ policy' = Restore(oldp, policy)
         /\ writes' = writes + 1
         /\ iter' = i
         /\ ls' = "Reverted"
         /\ phase' = "returned"
         /\ UNCHANGED <<pc, params>>

\* The head of the for-loop (lines 160-169) and its else branch (178-182).
EnterLoop(i, ss, oldp, st, ps) ==
    IF LoopContinues(i)
    THEN /\ policy' = Tentative(oldp, ss, st)
         /\ writes' = writes + 1
         /\ iter' = i + 1
         /\ ls' = "Probing"
         /\ phase' = "probe"
         /\ params' = [t \in Tasks |-> ProbeParams(ps, t)]
         /\ pc' = [t \in Tasks |-> StartPc(ProbeParams(ps, t))]
    ELSE /\ policy' = Restore(oldp, policy)
         /\ writes' = writes + 1
         /\ iter' = i
         /\ ls' = "Reverted"
         /\ phase' = "returned"
         /\ UNCHANGED <<pc, params>>

\* step(), lines 132-162: aggregate, solve for the step, save old_params and
\* enter the line search.
AfterInitialPass ==
    /\ phase = "initial"
    /\ GatherDone
    /\ LET fisher == Mean([t \in Tasks |-> valid[t].fisher])
           grads == Mean([t \in Tasks |-> valid[t].grad])
           stepdir == conjugate_gradient(fisher, cg_damping, grads)
           shs == FMul(Half, FMul(stepdir,
                      hessian_vector_product(fisher, cg_damping, stepdir)))
           lagrange_multiplier == LagrangeMultiplier(shs, max_kl)
           newstep == FDiv(stepdir, lagrange_multiplier)
       IN  /\ old_loss' = Mean(losses)
           /\ aggregated' = TRUE
           /\ step' = newstep
           /\ old_params' = policy
           /\ step_size' = One
           /\ parameters' = params
           /\ EnterLoop(0, One, policy, newstep, params)
    /\ UNCHANGED <<num_steps, train, valid, old_pis, losses, kls,
                   ls_max_steps, cg_damping, pre, adaptCalls, trainAwaits, log>>

\* step(), lines 171-182: decide the probe; break, or backtrack and loop.
AfterProbe ==
    /\ phase = "probe"
    /\ GatherDone
    /\ LET improve == FSub(Mean(losses), old_loss)
           kl == Mean(kls)
           ok == Accept(improve, kl, max_kl)
       IN  /\ log' = Append(log, [improve |-> improve, kl |-> kl,
                                  step_size |-> step_size, params |-> policy,
                                  accepted |-> ok])
           /\ IF ok
              THEN /\ ls' = "Accepted"
                   /\ phase' = "returned"
                   /\ UNCHANGED <<policy, writes, iter, pc, params, step_size>>
              ELSE /\ step_size' = Backtrack(step_size)
                   /\ EnterLoop(iter, Backtrack(step_size), old_params, step,
                                parameters)
    /\ UNCHANGED <<num_steps, train, valid, parameters, old_pis, losses, kls,
                   aggregated, old_loss, step, old_params, ls_max_steps,
                   cg_damping, pre, adaptCalls, trainAwaits>>

Sampler ==
    \E t \in Tasks : ResolveTrain(t) \/ ResolveValid(t)

SamplerFails ==
    \E t \in Tasks : FailTrain(t) \/ FailValid(t)

Coroutines ==
    \E t \in Tasks : AwaitTrain(t) \/ AwaitValid(t)

StepCalled ==
    \E lsmax \in 0..MaxLs, damping \in DampingSet : Call(lsmax, damping)

Next ==
    \/ StepCalled
    \/ Sampler
    \/ SamplerFails
    \/ Coroutines
    \/ \E t \in Tasks : EvalFault(t)
    \/ GatherRaise
    \/ AfterInitialPass
    \/ AfterProbe

Spec == Init /\ [][Next]_vars

\* The run in which every future resolves successfully and no evaluation
\* raises; the event loop runs every ready coroutine and the sampler's workers
\* deliver every episode batch.
NextLive ==
    \/ StepCalled
    \/ Sampler
    \/ Coroutines
    \/ AfterInitialPass
    \/ AfterProbe

LiveSpec ==
    /\ Init
    /\ [][NextLive]_vars
    /\ WF_vars(Sampler)
    /\ WF_vars(Coroutines)
    /\ WF_vars(AfterInitialPass)
    /\ WF_vars(AfterProbe)

\* ------------------------------------------------------------ properties
RECURSIVE RatioPow(_)
RatioPow(k) == IF k = 0 THEN One ELSE FMul(RatioPow(k - 1), ls_backtrack_ratio)

Passes(r) == FLt(r.improve, Zero) /\ FLt(r.kl, max_kl)

NoProbePasses == \A i \in 1..Len(log) : ~Passes(log[i])

AnyFutureFailed ==
    \E t \in Tasks : train[t].st = "failed" \/ valid[t].st = "failed"

AllFuturesOk ==
    \A t \in Tasks : train[t].st = "ok" /\ valid[t].st = "ok"

\* C1: when step() returns and no probe satisfied (improvement < 0 and
\* KL < max_kl), ls_max_steps = 0 included, the policy parameters equal the
\* vector saved in old_params, which is the vector step() was called with.
C1_ExhaustionReverts ==
    (phase = "returned" /\ NoProbePasses) =>
        /\ policy = old_params
        /\ policy = pre
        /\ Len(log) = ls_max_steps

C1_Witness ==
    /\ phase = "returned"
    /\ NoProbePasses
    /\ Len(log) >= 2
    /\ \A i \in 1..Len(log) : IsFinite(log[i].params) /\ log[i].params # pre
    /\ policy = pre

\* C2: a probe is accepted iff improvement < 0 and KL < max_kl, both strict;
\* the search stops at the first accepted probe; the k-th probe (from 0) is
\* made at step_size = ratio^k with parameters old_params - ratio^k * step,
\* which are the parameters step() returns with when that probe is accepted;
\* an accepted first probe leaves old_params - 1.0 * step after one probe.
C2_AcceptanceRule ==
    /\ \A i \in 1..Len(log) :
          /\ log[i].accepted <=> Passes(log[i])
          /\ log[i].accepted => i = Len(log)
          /\ log[i].step_size = RatioPow(i - 1)
          /\ log[i].params = FSub(old_params, FMul(RatioPow(i - 1), step))
    /\ (ls = "Accepted") <=> (Len(log) >= 1 /\ log[Len(log)].accepted)
    /\ ls = "Accepted" =>
          /\ phase = "returned"
          /\ old_params = pre
          /\ step_size = RatioPow(Len(log) - 1)
          /\ policy = FSub(pre, FMul(RatioPow(Len(log) - 1), step))
    /\ (Len(log) >= 1 /\ log[1].accepted) =>
          /\ Len(log) = 1
          /\ step_size = One
          /\ policy = FSub(pre, step)

C2_Witness ==
    /\ ls = "Accepted"
    /\ Len(log) = 2
    /\ ~Passes(log[1])
    /\ policy = FSub(pre, FMul(ls_backtrack_ratio, step))
    /\ policy # pre

\* The first probe is accepted at step_size = 1.0.
C2_WitnessFirstProbe ==
    ls = "Accepted" /\ Len(log) = 1 /\ policy = FSub(pre, step) /\ policy # pre

\* A probe with KL = max_kl and a negative improvement is rejected.
C2_WitnessKlEquality ==
    \E i \in 1..Len(log) :
        log[i].kl = max_kl /\ FLt(log[i].improve, Zero) /\ ~log[i].accepted

\* C3: once the train or validation future of a task has failed, step() never
\* returns normally, the policy parameters keep their value from before the
\* call, and no aggregate, step or line-search probe is ever computed.
C3_FailedFutureFailsStep ==
    AnyFutureFailed =>
        /\ phase \in {"idle", "initial", "faulted"}
        /\ ~aggregated
        /\ policy = pre
        /\ writes = 0
        /\ iter = 0
        /\ ls = "none"
        /\ log = <<>>

C3_Witness ==
    /\ phase = "faulted"
    /\ AnyFutureFailed
    /\ \E t \in Tasks : pc[t] = "done"
    /\ \E t \in Tasks : pc[t] = "raised"

\* C4: whenever step() has ended, by returning or by a fault, the policy
\* parameters are the pre-step value or a tentative value whose own probe
\* passed the check.  Stated for the calls whose step is a finite vector, so
\* that a violation does not rest on an unguarded Lagrange multiplier (C7).
C4_NeverUnvalidated ==
    (phase \in {"returned", "faulted"} /\ IsFinite(step)) =>
        \/ policy = pre
        \/ /\ ls = "Accepted"
           /\ Passes(log[Len(log)])
           /\ log[Len(log)].params = policy

\* C5 as stated: the policy parameters are written exactly once per call, by
\* the accept or the revert, and never before that decision.
C5_WrittenExactlyOnce ==
    /\ phase \in {"idle", "initial", "probe"} => writes = 0
    /\ phase = "returned" => writes = 1

\* C5 as amended: the parameters are written once at the start of every probe
\* and once more by the revert; the accept writes nothing.
C5_WritesPerProbe ==
    /\ phase \in {"idle", "initial"} => writes = 0
    /\ phase = "probe" => writes = Len(log) + 1
    /\ ls = "Accepted" => writes = Len(log)
    /\ ls = "Reverted" => writes = ls_max_steps + 1 /\ Len(log) = ls_max_steps
    /\ writes = iter + (IF ls = "Reverted" THEN 1 ELSE 0)

C5_Witness ==
    /\ phase = "returned"
    /\ ls = "Reverted"
    /\ writes = 3
    /\ Len(log) = 2

\* C6: the aggregates, every line-search decision and every change of
\* step_size or of the policy parameters happen only when every task's
\* evaluation of the running pass has completed.
C6_GatherBarriers ==
    [][(\/ aggregated' # aggregated
        \/ policy' # policy
        \/ step_size' # step_size
        \/ writes' # writes
        \/ ls' # ls
        \/ log' # log)
       => \A t \in Tasks : pc[t] = "done"]_vars

C6_Witness ==
    /\ phase = "probe"
    /\ iter = 2
    /\ Len(log) = 1
    /\ \E t \in Tasks : pc[t] = "done"
    /\ \E t \in Tasks : pc[t] # "done"

\* C7: the step written into the policy during the line search is never an
\* infinite or NaN vector.
C7_MultiplierGuarded ==
    /\ IsFinite(policy)
    /\ aggregated => IsFinite(step)

\* C8 as stated: for every num_steps, adapt() runs exactly once per task and
\* the train future is awaited exactly once per task in one call of step().
C8_AdaptExactlyOnce ==
    phase = "returned" =>
        \A t \in Tasks : adaptCalls[t] = 1 /\ trainAwaits[t] = 1

\* C8 as amended: with num_steps >= 1 adapt() runs once per task and the train
\* future is awaited once per task, both in the initial pass, and every probe
\* starts at the validation future with the params and old_pi of the initial
\* pass; with num_steps = 0 the params are None, so every probe awaits the
\* train future and calls adapt() again.
C8_AdaptPerNumSteps ==
    \A t \in Tasks :
        /\ num_steps >= 1 =>
              /\ adaptCalls[t] <= 1
              /\ trainAwaits[t] <= 1
              /\ phase = "probe" => pc[t] # "train"
              /\ aggregated =>
                    /\ adaptCalls[t] = 1
                    /\ trainAwaits[t] = 1
                    /\ parameters[t] = Some(FSub(pre, FMul(fast_lr, train[t].grad)))
                    /\ old_pis[t] = parameters[t]
        /\ (num_steps = 0 /\ phase = "returned") =>
              /\ adaptCalls[t] = 1 + Len(log)
              /\ trainAwaits[t] = 1 + Len(log)
              /\ parameters[t] = None
              /\ old_pis[t] = Some(pre)

C8_Witness ==
    /\ num_steps = 0
    /\ phase = "returned"
    /\ Len(log) = 2
    /\ \A t \in Tasks : adaptCalls[t] = 3 /\ trainAwaits[t] = 3

\* With num_steps = 1 two probes are made on one adaptation per task.
C8_WitnessAdapted ==
    /\ num_steps = 1
    /\ phase = "returned"
    /\ Len(log) = 2
    /\ \A t \in Tasks : adaptCalls[t] = 1

\* C9: when every future resolves, a call of step() makes at most
\* ls_max_steps probes and then returns in exactly one of Accepted and
\* Reverted, which it never leaves; it reaches neither while a future is
\* unresolved.
C9_LineSearchTerminates ==
    /\ [](Len(log) <= ls_max_steps /\ iter <= ls_max_steps)
    /\ []((phase = "returned") <=> (ls \in {"Accepted", "Reverted"}))
    /\ [](ls \in {"Accepted", "Reverted"} => AllFuturesOk)
    /\ [][(ls \in {"Accepted", "Reverted"}) => (ls' = ls)]_vars
    /\ ((phase = "initial") ~> (phase = "returned"))

C9_Witness ==
    /\ phase = "returned"
    /\ ls = "Accepted"
    /\ Len(log) = ls_max_steps
    /\ ls_max_steps = 2

\* C10: with num_steps >= 1 every probe evaluates each task at its adapted
\* params of the initial pass, not at the probed parameters; all probes of a
\* call compute the same improvement and KL and decide alike, so no probe of
\* index >= 1 is the first to be accepted.
C10_ProbesIndependentOfStep ==
    num_steps >= 1 =>
        /\ \A i, j \in 1..Len(log) :
              /\ log[i].improve = log[j].improve
              /\ log[i].kl = log[j].kl
              /\ log[i].accepted = log[j].accepted
        /\ \A i \in 2..Len(log) : ~log[i].accepted
        /\ ls = "Accepted" => Len(log) = 1

C10_Witness ==
    /\ num_steps >= 1
    /\ Len(log) = 2
    /\ IsFinite(log[1].params)
    /\ log[1].params # log[2].params
    /\ log[1].improve = log[2].improve
    /\ phase = "returned"

====
